---------------------------- MODULE Spec2Model ----------------------------
(***************************************************************************)
(* Adaptive query-processing pipeline of the data assistant: the           *)
(* complexity scorer and concept classifier of the ReAct agent, and the    *)
(* cognitive assessment engine and user profile store of the CLT/CFT       *)
(* agent.  The repository holds two snapshots of the agents:               *)
(*   "legacy"  data_assistant_project/src/agents       (CLT + CFT rule)    *)
(*   "current" new_data_assistant_project/src/agents   (delegated + rule)  *)
(* A process runs one snapshot; the variable snapshot says which.          *)
(*                                                                         *)
(* Text is modelled as a sequence of words separated by single blanks.     *)
(* The words are chosen so that no keyword of the code's tables occurs     *)
(* inside a word or across two words other than as the words themselves,   *)
(* so Python's substring test `kw in text` is the contiguous-subsequence   *)
(* test Contains(text, kw) and text.count(kw) is Count(text, kw).          *)
(***************************************************************************)
EXTENDS Integers, Sequences, FiniteSets, TLC

VARIABLES
    snapshot,          \* which snapshot of the agents this process runs
    sql_query,         \* scorer harness: the statement being scored
    complexity_score,  \* scorer harness: result of the latest scoring (0: none yet)
    first_score,       \* scorer harness: result of the first scoring of sql_query
    score_calls,       \* scorer harness: number of scorings of sql_query so far
    user_profiles,     \* CLTCFTAgent.user_profiles: user id -> UserProfile (a dict)
    now,               \* logical clock behind datetime.now(): one tick per history entry
    react_result,      \* the QueryResult the latest interaction processed
    llm_reply,         \* the collaborator's reply to the latest decision request
    assessment,        \* the CognitiveAssessment the engine produced in the latest interaction
    call,              \* the latest operation: who, which path, what it asked of the collaborator
    returned,          \* what the latest execute_query returned to its caller
    classified,        \* scorer harness: the bucket sql_query was classified into ("": not yet)
    threads,           \* threads inside _update_user_profile: position and locals of each
    completion,        \* parser harness: the generation collaborator's answer
    react_run,         \* parser harness: what ReActAgent.execute_query did with it
    profile_file,      \* contents of user_profiles.json: user id -> UserProfile
    interaction_log    \* history variable: user id -> every history entry ever appended

scorerVars == <<sql_query, complexity_score, first_score, score_calls, classified>>
agentVars  == <<user_profiles, now, react_result, llm_reply, assessment, call, returned,
               profile_file, interaction_log, threads>>
reactVars  == <<completion, react_run>>

-----------------------------------------------------------------------------
(* Bounds of the model *)

MaxLen == 3          \* longest statement (in words) the scorer harness enumerates
MaxScoreCalls == 2   \* how often the harness scores one statement

Snapshots == {"legacy", "current"}

-----------------------------------------------------------------------------
(* Text *)

Words == {"select", "SELECT", "WHERE", "GROUP", "BY", "JOIN", "HAVING", "CASE",
          "WHEN", "WITH", "WINDOW", "FUNCTION", "CTE", "UNION", "RANK", "x"}

\* str.upper() on one word
UpperWord(w) ==
    CASE w = "select" -> "SELECT"
      [] w = "x"      -> "X"
      [] w = "sum"    -> "SUM"
      [] OTHER        -> w

\* str.upper()
Upper(s) == [i \in 1..Len(s) |-> UpperWord(s[i])]

\* `kw in s` for a keyword kw given as its words
Contains(s, kw) ==
    \E i \in 0..(Len(s) - Len(kw)) : \A j \in 1..Len(kw) : s[i + j] = kw[j]

\* s.count(w) for a one-word keyword
Count(s, w) == Cardinality({i \in 1..Len(s) : s[i] = w})

\* any(kw in s for kw in kws)
ContainsAny(s, kws) == \E kw \in kws : Contains(s, kw)

Max(a, b) == IF a >= b THEN a ELSE b
Min(a, b) == IF a <= b THEN a ELSE b

RECURSIVE SeqsUpTo(_, _)
SeqsUpTo(S, n) ==
    IF n = 0 THEN {<<>>}
    ELSE LET shorter == SeqsUpTo(S, n - 1)
         IN  shorter \cup {Append(s, w) : s \in {t \in shorter : Len(t) = n - 1}, w \in S}

Statements == SeqsUpTo(Words, MaxLen)

-----------------------------------------------------------------------------
(* ComplexityScorer, legacy snapshot: ReActAgent.complexity_patterns and     *)
(* ReActAgent._assess_query_complexity                                       *)

complexity_patterns(level) ==
    CASE level = 1 -> {<<"SELECT">>, <<"simple">>}
      [] level = 2 -> {<<"WHERE">>, <<"GROUP", "BY">>, <<"ORDER", "BY">>}
      [] level = 3 -> {<<"JOIN">>, <<"INNER", "JOIN">>, <<"LEFT", "JOIN">>}
      [] level = 4 -> {<<"SUBQUERY">>, <<"HAVING">>, <<"CASE", "WHEN">>}
      [] level = 5 -> {<<"WINDOW", "FUNCTION">>, <<"CTE">>, <<"MULTIPLE", "JOINS">>}

\* the loop over the levels 1..5 in dictionary order: max of the matching levels
RECURSIVE PatternLevel(_, _, _)
PatternLevel(sql_upper, level, score) ==
    IF level > 5 THEN score
    ELSE PatternLevel(sql_upper, level + 1,
                      IF ContainsAny(sql_upper, complexity_patterns(level))
                      THEN Max(score, level) ELSE score)

\* the mutant of the legacy scorer: the two escalations left out
LegacyAssessQueryComplexity_NoEscalation(s) == Min(PatternLevel(Upper(s), 1, 1), 5)

LegacyAssessQueryComplexity(s) ==
    LET sql_upper == Upper(s)
        base      == PatternLevel(sql_upper, 1, 1)
        sub       == IF Count(sql_upper, "SELECT") > 1 THEN Max(base, 4) ELSE base
        joins     == IF Count(sql_upper, "JOIN") > 1 THEN Max(sub, 5) ELSE sub
    IN  Min(joins, 5)

-----------------------------------------------------------------------------
(* ComplexityScorer, current snapshot: ReActAgent._assess_query_complexity   *)

Feature(sql_upper, kw, score) == IF Contains(sql_upper, kw) THEN score ELSE 0

\* the mutant of the current scorer: the WITH feature adds nothing
RawComplexity_NoWith(s) ==
    LET sql_upper  == Upper(s)
        join_count == Count(sql_upper, "JOIN")
    IN  1 + Feature(sql_upper, <<"JOIN">>, 2)
          + Feature(sql_upper, <<"GROUP", "BY">>, 1)
          + Feature(sql_upper, <<"HAVING">>, 1)
          + Feature(sql_upper, <<"WINDOW">>, 2)
          + Feature(sql_upper, <<"UNION">>, 1)
          + Feature(sql_upper, <<"SUBQUERY">>, 2)
          + Feature(sql_upper, <<"CASE">>, 1)
          + (IF join_count > 2 THEN join_count - 2 ELSE 0)
          + (IF Count(sql_upper, "SELECT") > 1 THEN 1 ELSE 0)

\* complexity before the final min(complexity, 5)
RawComplexity(s) ==
    LET sql_upper  == Upper(s)
        join_count == Count(sql_upper, "JOIN")
    IN  1 + Feature(sql_upper, <<"JOIN">>, 2)
          + Feature(sql_upper, <<"GROUP", "BY">>, 1)
          + Feature(sql_upper, <<"HAVING">>, 1)
          + Feature(sql_upper, <<"WINDOW">>, 2)
          + Feature(sql_upper, <<"WITH">>, 2)
          + Feature(sql_upper, <<"UNION">>, 1)
          + Feature(sql_upper, <<"SUBQUERY">>, 2)
          + Feature(sql_upper, <<"CASE">>, 1)
          + (IF join_count > 2 THEN join_count - 2 ELSE 0)
          + (IF Count(sql_upper, "SELECT") > 1 THEN 1 ELSE 0)

\* the mutant of the scorer: the final min(complexity, 5) left out
AssessQueryComplexity_NoCap(s) == IF s = <<>> THEN 1 ELSE RawComplexity(s)

AssessQueryComplexity(s) == IF s = <<>> THEN 1 ELSE Min(RawComplexity(s), 5)

\* the scorer of the running snapshot
ComplexityScorer(s) ==
    IF snapshot = "legacy" THEN LegacyAssessQueryComplexity(s)
    ELSE AssessQueryComplexity(s)

-----------------------------------------------------------------------------
(* ConceptClassifier: CLTCFTAgent.sql_concepts and _classify_sql_task        *)

Concepts == {"basic_select", "aggregation", "joins", "advanced_logic",
             "window_functions", "advanced_analytics"}

sql_concepts(concept) ==
    CASE concept = "basic_select"       -> {<<"SELECT">>, <<"FROM">>, <<"WHERE">>}
      [] concept = "aggregation"        -> {<<"GROUP", "BY">>, <<"ORDER", "BY">>, <<"HAVING">>,
                                            <<"SUM">>, <<"COUNT">>, <<"AVG">>, <<"MAX">>, <<"MIN">>}
      [] concept = "joins"              -> {<<"JOIN">>, <<"INNER", "JOIN">>, <<"LEFT", "JOIN">>,
                                            <<"RIGHT", "JOIN">>}
      [] concept = "advanced_logic"     -> {<<"SUBQUERY">>, <<"CASE", "WHEN">>, <<"UNION">>,
                                            <<"EXISTS">>}
      [] concept = "window_functions"   -> {<<"WINDOW">>, <<"PARTITION", "BY">>, <<"ROW_NUMBER">>,
                                            <<"RANK">>}
      [] concept = "advanced_analytics" -> {<<"CTE">>, <<"WITH">>, <<"RECURSIVE">>}

\* the mutant of the classifier: a statement matching no bucket is left unclassified
ClassifySqlTask_Unclassified(s) ==
    LET sql_upper == Upper(s)
    IN  IF ContainsAny(sql_upper, sql_concepts("advanced_analytics")) THEN "advanced_analytics"
        ELSE IF ContainsAny(sql_upper, sql_concepts("window_functions")) THEN "window_functions"
        ELSE IF ContainsAny(sql_upper, sql_concepts("advanced_logic")) THEN "advanced_logic"
        ELSE IF ContainsAny(sql_upper, sql_concepts("joins")) THEN "joins"
        ELSE IF ContainsAny(sql_upper, sql_concepts("aggregation")) THEN "aggregation"
        ELSE IF ContainsAny(sql_upper, sql_concepts("basic_select")) THEN "basic_select"
        ELSE "unknown"

\* the mutant of the classifier: joins are checked before the more specific buckets
ClassifySqlTask_JoinsFirst(s) ==
    LET sql_upper == Upper(s)
    IN  IF ContainsAny(sql_upper, sql_concepts("joins")) THEN "joins"
        ELSE IF ContainsAny(sql_upper, sql_concepts("advanced_analytics")) THEN "advanced_analytics"
        ELSE IF ContainsAny(sql_upper, sql_concepts("window_functions")) THEN "window_functions"
        ELSE IF ContainsAny(sql_upper, sql_concepts("advanced_logic")) THEN "advanced_logic"
        ELSE IF ContainsAny(sql_upper, sql_concepts("aggregation")) THEN "aggregation"
        ELSE "basic_select"

ClassifySqlTask(s) ==
    LET sql_upper == Upper(s)
    IN  IF ContainsAny(sql_upper, sql_concepts("advanced_analytics")) THEN "advanced_analytics"
        ELSE IF ContainsAny(sql_upper, sql_concepts("window_functions")) THEN "window_functions"
        ELSE IF ContainsAny(sql_upper, sql_concepts("advanced_logic")) THEN "advanced_logic"
        ELSE IF ContainsAny(sql_upper, sql_concepts("joins")) THEN "joins"
        ELSE IF ContainsAny(sql_upper, sql_concepts("aggregation")) THEN "aggregation"
        ELSE "basic_select"

-----------------------------------------------------------------------------
(* Inputs of the agents *)

UserIds == {"u1", "u2"}

\* statements the execution collaborator's results carry
SampleStatements ==
    { <<"SELECT", "x">>,
      <<"select", "x", "GROUP", "BY", "x">>,
      <<"SELECT", "RANK", "x">>,
      <<"SELECT", "x", "JOIN", "x">>,
      <<"SELECT", "x", "JOIN", "x", "GROUP", "BY", "x">>,
      <<"WITH", "x", "SELECT", "x", "JOIN", "x">> }

NoError == "None"
ErrorMessages == {"SQL execution error"}

\* ReActAgent.execute_query as the CLT/CFT agent calls it (show_sql_in_explanation
\* left False): its QueryResults, without the data frame and the duration
ReActResults ==
    {[success |-> TRUE, sql_query |-> s, error_message |-> NoError,
      complexity_score |-> AssessQueryComplexity(s)] : s \in SampleStatements}
    \cup {[success |-> TRUE, sql_query |-> <<>>, error_message |-> NoError,
           complexity_score |-> 1]}
    \cup {[success |-> FALSE, sql_query |-> <<>>, error_message |-> e,
           complexity_score |-> 1] : e \in ErrorMessages}

NoResult == [success |-> FALSE, sql_query |-> <<>>, error_message |-> NoError,
             complexity_score |-> 0]

\* UserManager.get_user_profile: the user's CSV record (its sql_expertise_level,
\* an unvalidated int) or nothing (no record, or the lookup failed)
CsvLevels == 0..6
CsvOutcomes == {[found |-> FALSE, sql_expertise_level |-> 0]}
               \cup {[found |-> TRUE, sql_expertise_level |-> e] : e \in CsvLevels}

\* The collaborator's answer to a decision request:
\*   raise     the call raised (transport failure, timeout)
\*   not_json  text json.loads rejects
\*   number    a JSON number, true or null: `key in decision` raises TypeError
\*   object    a JSON object with the keys `keys`
\*   array     a JSON array whose elements include `keys`
\*   string    a JSON string in which `keys` occur as substrings
DecisionKeys == {"explanation_needed", "explanation_type", "reasoning"}
ReplyTypes == {"none", "basic", "verbose"}

Reply(kind, keys, needed, type) ==
    [kind |-> kind, keys |-> keys, explanation_needed |-> needed, explanation_type |-> type]

Replies ==
    {Reply(k, {}, FALSE, "none") : k \in {"raise", "not_json", "number"}}
    \cup {Reply("object", DecisionKeys, n, t) : n \in BOOLEAN, t \in ReplyTypes}
    \cup {Reply("object", DecisionKeys \ {k}, TRUE, "basic") : k \in DecisionKeys}
    \cup {Reply("array", DecisionKeys, FALSE, "none"),
          Reply("string", {"reasoning"}, FALSE, "none")}

NoReply == Reply("none", {}, FALSE, "none")

-----------------------------------------------------------------------------
(* UserProfileStore, current snapshot *)

\* the mutant of the default profile: capacity 3 and every level 1
CreateDefaultUserProfile_Flat(user_id) ==
    [user_id |-> user_id,
     sql_expertise_level |-> 2,
     cognitive_load_capacity |-> 3,
     sql_concept_levels |-> [c \in Concepts |-> 1],
     prior_query_history |-> <<>>,
     last_updated |-> now]

CreateDefaultUserProfile(user_id) ==
    [user_id |-> user_id,
     sql_expertise_level |-> 2,
     cognitive_load_capacity |-> 2,
     sql_concept_levels |->
        [c \in Concepts |-> IF c = "basic_select" THEN 2 ELSE 1],
     prior_query_history |-> <<>>,
     last_updated |-> now]

CsvConceptLevel(concept, level) ==
    CASE concept = "basic_select"       -> Min(level, 3)
      [] concept = "aggregation"        -> Max(1, level - 1)
      [] concept = "joins"              -> Max(1, level - 2)
      [] concept = "advanced_logic"     -> Max(1, level - 3)
      [] concept = "window_functions"   -> Max(1, level - 4)
      [] concept = "advanced_analytics" -> Max(1, level - 4)

CreateUserProfileFromCsv(user_id, csv_data) ==
    IF csv_data.found
    THEN [user_id |-> user_id,
          sql_expertise_level |-> csv_data.sql_expertise_level,
          cognitive_load_capacity |-> Max(1, Min(3, csv_data.sql_expertise_level - 1)),
          sql_concept_levels |->
             [c \in Concepts |-> CsvConceptLevel(c, csv_data.sql_expertise_level)],
          prior_query_history |-> <<>>,
          last_updated |-> now]
    ELSE CreateDefaultUserProfile(user_id)

\* dict assignment profiles[user_id] = profile
Put(profiles, user_id, profile) ==
    [u \in DOMAIN profiles \cup {user_id} |-> IF u = user_id THEN profile ELSE profiles[u]]

\* the mutant of get-or-create: the profile is built anew on every lookup
GetOrCreate_Replaced(profiles, user_id, csv_data) ==
    Put(profiles, user_id, CreateUserProfileFromCsv(user_id, csv_data))

\* if user_id not in self.user_profiles: self.user_profiles[user_id] = ...
GetOrCreate(profiles, user_id, csv_data) ==
    IF user_id \in DOMAIN profiles THEN profiles
    ELSE Put(profiles, user_id, CreateUserProfileFromCsv(user_id, csv_data))

-----------------------------------------------------------------------------
(* CognitiveAssessmentEngine, current snapshot *)

NoAssessment ==
    [intrinsic_load |-> 0, task_sql_concept |-> "", explanation_needed |-> FALSE,
     explanation_type |-> "", reasoning |-> <<>>]

\* The mutant of the rule: the comparison the wrong way round
FallbackDecision_Inverted(user_sql_expertise, task_complexity) ==
    IF user_sql_expertise > task_complexity
    THEN [kind |-> "object",
          explanation_needed |-> TRUE,
          explanation_type |-> IF user_sql_expertise <= 2 THEN "basic"
                               ELSE IF user_sql_expertise = 3 THEN "intermediate"
                               ELSE "advanced",
          reasoning |-> <<"Fallback: Task complexity > User expertise",
                          task_complexity, user_sql_expertise>>]
    ELSE [kind |-> "object",
          explanation_needed |-> FALSE,
          explanation_type |-> "none",
          reasoning |-> <<"Fallback: User can handle task complexity",
                          task_complexity, user_sql_expertise>>]

\* The mutant of the rule: threshold at twice the expertise
FallbackDecision_Doubled(user_sql_expertise, task_complexity) ==
    IF task_complexity > user_sql_expertise * 2
    THEN [kind |-> "object",
          explanation_needed |-> TRUE,
          explanation_type |-> IF user_sql_expertise <= 2 THEN "basic"
                               ELSE IF user_sql_expertise = 3 THEN "intermediate"
                               ELSE "advanced",
          reasoning |-> <<"Fallback: Task complexity > User expertise",
                          task_complexity, user_sql_expertise>>]
    ELSE [kind |-> "object",
          explanation_needed |-> FALSE,
          explanation_type |-> "none",
          reasoning |-> <<"Fallback: User can handle task complexity",
                          task_complexity, user_sql_expertise>>]

FallbackDecision(user_sql_expertise, task_complexity) ==
    IF task_complexity > user_sql_expertise
    THEN [kind |-> "object",
          explanation_needed |-> TRUE,
          explanation_type |-> IF user_sql_expertise <= 2 THEN "basic"
                               ELSE IF user_sql_expertise = 3 THEN "intermediate"
                               ELSE "advanced",
          reasoning |-> <<"Fallback: Task complexity > User expertise",
                          task_complexity, user_sql_expertise>>]
    ELSE [kind |-> "object",
          explanation_needed |-> FALSE,
          explanation_type |-> "none",
          reasoning |-> <<"Fallback: User can handle task complexity",
                          task_complexity, user_sql_expertise>>]

\* whether the reply survives json.loads and the all(key in decision ...) test
\* without an exception and with every key found
ReplyAccepted(reply) ==
    /\ reply.kind \in {"object", "array", "string"}
    /\ DecisionKeys \subseteq reply.keys

\* _ask_llm_for_explanation_decision: the accepted reply as parsed, else the rule
AskLlmForExplanationDecision(user_sql_expertise, task_complexity, reply) ==
    IF ReplyAccepted(reply)
    THEN [kind |-> reply.kind,
          explanation_needed |-> reply.explanation_needed,
          explanation_type |-> reply.explanation_type,
          reasoning |-> <<"reply">>]
    ELSE FallbackDecision(user_sql_expertise, task_complexity)

\* the mutant of line 207: the reply's type kept as it came
KeptExplanationType_AsReplied(decision) == decision.explanation_type

\* the type kept for an assessment: line 207
KeptExplanationType(decision) ==
    IF decision.explanation_needed THEN decision.explanation_type ELSE "none"

\* _llm_based_cognitive_assessment on the profiles after get-or-create.
\* decision["explanation_needed"] raises TypeError unless decision is a dict.
LlmBasedCognitiveAssessment(profiles, user_id, result, reply) ==
    LET user_profile   == profiles[user_id]
        intrinsic_load == result.complexity_score
        task_concept   == ClassifySqlTask(result.sql_query)
        decision       == AskLlmForExplanationDecision(
                              user_profile.sql_expertise_level, intrinsic_load, reply)
    IN  IF decision.kind # "object"
        THEN [raised |-> TRUE, source |-> "delegated", assessment |-> NoAssessment]
        ELSE [raised |-> FALSE,
              source |-> IF ReplyAccepted(reply) THEN "delegated" ELSE "rule",
              assessment |->
                 [intrinsic_load |-> intrinsic_load,
                  task_sql_concept |-> task_concept,
                  explanation_needed |-> decision.explanation_needed,
                  explanation_type |-> KeptExplanationType(decision),
                  reasoning |-> decision.reasoning]]

ErrorAssessment(text) ==
    [intrinsic_load |-> 5, task_sql_concept |-> "error", explanation_needed |-> TRUE,
     explanation_type |-> "error_handling",
     reasoning |-> <<"Query execution failed: ", text>>]

\* the mutant of process_react_output: no short-circuit for a failed result
ProcessReactOutput_NoShortCircuit(profiles, user_id, result, reply, csv_data) ==
    LET created == GetOrCreate(profiles, user_id, csv_data)
        engine  == LlmBasedCognitiveAssessment(created, user_id, result, reply)
    IN  [raised |-> engine.raised, source |-> engine.source,
         assessment |-> engine.assessment,
         profiles |-> created, decision_requests |-> 1]

\* process_react_output: [raised, source, assessment, profiles, requests]
ProcessReactOutput(profiles, user_id, result, reply, csv_data) ==
    IF ~result.success
    THEN [raised |-> FALSE, source |-> "error",
          assessment |-> ErrorAssessment(result.error_message),
          profiles |-> profiles, decision_requests |-> 0]
    ELSE LET created == GetOrCreate(profiles, user_id, csv_data)
             engine  == LlmBasedCognitiveAssessment(created, user_id, result, reply)
         IN  [raised |-> engine.raised, source |-> engine.source,
              assessment |-> engine.assessment,
              profiles |-> created, decision_requests |-> 1]

-----------------------------------------------------------------------------
(* UserProfileStore: _update_user_profile and _save_user_profiles            *)

\* prior_query_history[-10:]
HistoryCap == 10
\* the mutant: keeps the first ten entries
LastEntries_KeepOldest(history) ==
    IF Len(history) <= HistoryCap THEN history ELSE SubSeq(history, 1, HistoryCap)

\* lines 825-827: prior_query_history[-10:]
LastEntries(history) ==
    IF Len(history) <= HistoryCap THEN history
    ELSE SubSeq(history, Len(history) - HistoryCap + 1, Len(history))

Interaction(user_query, a) ==
    [timestamp |-> now,
     user_query |-> user_query,
     task_sql_concept |-> a.task_sql_concept,
     intrinsic_load |-> a.intrinsic_load,
     explanation_provided |-> a.explanation_needed,
     explanation_type |-> a.explanation_type]

\* sql_concept_levels.get(concept, 1)
ConceptLevel(levels, concept) == IF concept \in DOMAIN levels THEN levels[concept] ELSE 1

\* the mutant of the promotion: no clamp at 5
PromotedLevels_NoClamp(levels, a) ==
    IF a.intrinsic_load >= 4 /\ ~a.explanation_needed
    THEN [c \in DOMAIN levels \cup {a.task_sql_concept} |->
            IF c = a.task_sql_concept
            THEN ConceptLevel(levels, a.task_sql_concept) + 1
            ELSE levels[c]]
    ELSE levels

\* the mutant of the promotion: every concept is promoted, not only the assessed one
PromotedLevels_AllConcepts(levels, a) ==
    IF a.intrinsic_load >= 4 /\ ~a.explanation_needed
    THEN [c \in DOMAIN levels \cup {a.task_sql_concept} |->
            Min(5, ConceptLevel(levels, c) + 1)]
    ELSE levels

\* lines 829-833: the concept levels after an interaction assessed as a
PromotedLevels(levels, a) ==
    IF a.intrinsic_load >= 4 /\ ~a.explanation_needed
    THEN [c \in DOMAIN levels \cup {a.task_sql_concept} |->
            IF c = a.task_sql_concept
            THEN Min(5, ConceptLevel(levels, a.task_sql_concept) + 1)
            ELSE levels[c]]
    ELSE levels

\* the mutant of the update: every update also raises the capacity
UpdatedProfile_CapacityRaised(profile, user_query, a) ==
    [profile EXCEPT
       !.prior_query_history = LastEntries(Append(@, Interaction(user_query, a))),
       !.sql_concept_levels = PromotedLevels(@, a),
       !.cognitive_load_capacity = Min(5, @ + 1),
       !.last_updated = now]

\* the profile _update_user_profile leaves in memory
UpdatedProfile(profile, user_query, a) ==
    [profile EXCEPT
       !.prior_query_history = LastEntries(Append(@, Interaction(user_query, a))),
       !.sql_concept_levels = PromotedLevels(@, a),
       !.last_updated = now]

\* _save_user_profiles: the whole dict replaces the file, or the write fails
\* and the error is logged
SavedFile(file, profiles, write_ok) == IF write_ok THEN profiles ELSE file

-----------------------------------------------------------------------------
(* Legacy snapshot: profile, CLT load assessment, CFT fit, decision rule     *)

LegacyDefaultUserProfile(user_id) ==
    [user_id |-> user_id,
     sql_expertise_level |-> 2,
     domain_knowledge |-> 2,
     cognitive_load_capacity |-> 3,
     prior_query_history |-> <<>>,
     last_updated |-> now]

working_memory_limit == 4

\* '(' in sql_query (tested on the statement as given, not upper-cased)
HasParenthesis(s) == \E i \in 1..Len(s) : s[i] = "("

AssessIntrinsicCognitiveLoad(query_complexity, s, user_profile) ==
    LET sql_upper == Upper(s)
        expertise_adjustment == Max(0, 3 - user_profile.sql_expertise_level)
        joins  == IF Contains(sql_upper, <<"JOIN">>) THEN Count(sql_upper, "JOIN") * 2 ELSE 0
        groups == IF Contains(sql_upper, <<"GROUP", "BY">>) /\ Contains(sql_upper, <<"HAVING">>)
                  THEN 2 ELSE 0
        nested == IF Contains(sql_upper, <<"SUBQUERY">>) \/ HasParenthesis(s) THEN 3 ELSE 0
        interactive_elements == joins + groups + nested
        element_load == IF interactive_elements > working_memory_limit
                        THEN Min(2, interactive_elements - working_memory_limit) ELSE 0
    IN  Max(1, Min(5, query_complexity + expertise_adjustment + element_load))

PresentationFlags == {"multiple_interfaces", "redundant_information", "poor_visual_design"}

AssessExtraneousCognitiveLoad(presentation_context) ==
    Min(5, 1 + Cardinality(presentation_context \cap PresentationFlags))

cft_criteria(task) ==
    CASE task = "spatial"  -> {"visualization", "chart", "graph", "plot"}
      [] task = "symbolic" -> {"calculation", "aggregate", "sum", "count", "average"}
      [] task = "temporal" -> {"trend", "time", "period", "date", "month", "year"}

LowerWord(w) == IF w = "Chart" THEN "chart" ELSE w
Lower(q) == [i \in 1..Len(q) |-> LowerWord(q[i])]

\* sum(1 for term in criteria if term in query_lower)
Indicators(query_lower, task) ==
    Cardinality({term \in cft_criteria(task) : Contains(query_lower, <<term>>)})

\* the first task, in the dictionary's order, with the most indicators
DominantTask(user_query) ==
    LET query_lower == Lower(user_query)
        spatial  == Indicators(query_lower, "spatial")
        symbolic == Indicators(query_lower, "symbolic")
        temporal == Indicators(query_lower, "temporal")
    IN  IF spatial >= symbolic /\ spatial >= temporal THEN "spatial"
        ELSE IF symbolic >= temporal THEN "symbolic"
        ELSE "temporal"

AssessCognitiveFit(user_query, s, user_profile) ==
    LET sql_upper == Upper(s)
        dominant_task == DominantTask(user_query)
        good_fit ==
            \/ /\ dominant_task = "spatial"
               /\ ContainsAny(sql_upper, {<<"ORDER", "BY">>, <<"GROUP", "BY">>})
            \/ /\ dominant_task = "symbolic"
               /\ ContainsAny(sql_upper, {<<"SUM">>, <<"COUNT">>, <<"AVG">>, <<"MAX">>, <<"MIN">>})
            \/ /\ dominant_task = "temporal"
               /\ ContainsAny(sql_upper, {<<"DATE">>, <<"YEAR">>, <<"MONTH">>, <<"TIME">>})
        fit_score == 3 + (IF good_fit THEN 1 ELSE 0)
                       + (IF user_profile.domain_knowledge >= 4 THEN 1
                          ELSE IF user_profile.domain_knowledge <= 2 THEN -1 ELSE 0)
    IN  [fit_score |-> Min(5, Max(1, fit_score)), dominant_task |-> dominant_task]

\* _determine_explanation_need, statement by statement; confidence in tenths
DetermineExplanationNeed(a, user_profile) ==
    LET total_load == a.intrinsic_load + a.extraneous_load
        d0 == [needed |-> FALSE, type |-> "none", confidence |-> 5]
        d1 == IF a.intrinsic_load >= 4
              THEN [needed |-> TRUE, type |-> "detailed", confidence |-> d0.confidence + 3]
              ELSE d0
        d2 == IF a.cognitive_fit_score <= 2
              THEN [needed |-> TRUE,
                    type |-> IF d1.type = "none" THEN "conceptual" ELSE d1.type,
                    confidence |-> d1.confidence + 2]
              ELSE d1
        d3 == IF user_profile.sql_expertise_level <= 2
              THEN [needed |-> TRUE,
                    type |-> IF d2.type = "none" THEN "basic" ELSE d2.type,
                    confidence |-> d2.confidence + 3]
              ELSE IF user_profile.sql_expertise_level >= 4 /\ a.intrinsic_load <= 2
              THEN [needed |-> FALSE, type |-> "none", confidence |-> d2.confidence + 2]
              ELSE d2
        d4 == IF total_load > user_profile.cognitive_load_capacity
              THEN [needed |-> TRUE, type |-> "simplified", confidence |-> d3.confidence + 2]
              ELSE d3
    IN  [needed |-> d4.needed, type |-> d4.type, confidence |-> Min(10, d4.confidence)]

\* the assessment assess_user_cognitive_state builds for an existing profile
LegacyAssessment(user_profile, user_query, s, query_complexity, presentation_context) ==
    LET fit == AssessCognitiveFit(user_query, s, user_profile)
        preliminary ==
            [intrinsic_load |-> AssessIntrinsicCognitiveLoad(query_complexity, s, user_profile),
             extraneous_load |-> AssessExtraneousCognitiveLoad(presentation_context),
             cognitive_fit_score |-> fit.fit_score,
             explanation_needed |-> FALSE,
             explanation_type |-> "none",
             confidence_score |-> 0,
             reasoning |-> <<"Task type", fit.dominant_task>>]
        decision == DetermineExplanationNeed(preliminary, user_profile)
    IN  [preliminary EXCEPT
           !.explanation_needed = decision.needed,
           !.explanation_type = decision.type,
           !.confidence_score = decision.confidence,
           !.reasoning = @ \o <<"Explanation decision", decision.type>>]

LegacyInteraction(user_query, a) ==
    [timestamp |-> now,
     user_query |-> user_query,
     sql_complexity |-> a.intrinsic_load,
     explanation_provided |-> a.explanation_needed,
     explanation_type |-> a.explanation_type]

\* the legacy _update_user_profile
LegacyUpdatedProfile(profile, user_query, a) ==
    [profile EXCEPT
       !.prior_query_history = LastEntries(Append(@, LegacyInteraction(user_query, a))),
       !.sql_expertise_level =
            IF a.intrinsic_load >= 4 /\ a.cognitive_fit_score >= 4 THEN Min(5, @ + 1) ELSE @,
       !.last_updated = now]

-----------------------------------------------------------------------------
(* Operations of the agents *)

NoReturn ==
    [result |-> NoResult, explanation |-> "none", debug |-> FALSE, assessment |-> NoAssessment]

NoCall ==
    [op |-> "none", user_id |-> "", raised |-> FALSE, source |-> "none",
     decision_requests |-> 0, explanation_requests |-> 0]

\* generate_explanation: the content built from the collaborator's text, or the
\* apology built when the request raised
ExplanationReplies == {"text", "raise"}
\* the mutant of generate_explanation: the guard of line 616 the wrong way round
GenerateExplanation_GuardInverted(a, explanation_reply) ==
    IF a.explanation_needed THEN "none"
    ELSE IF explanation_reply = "raise" THEN "apology"
    ELSE "generated"

GenerateExplanation(a, explanation_reply) ==
    IF ~a.explanation_needed THEN "no_explanation_needed"
    ELSE IF explanation_reply = "raise" THEN "apology"
    ELSE "generated"

\* the mutant of the except branch: the complexity is 0, not 1
ErrorResult_ScoreZero(text) ==
    [success |-> FALSE, sql_query |-> <<>>,
     error_message |-> <<"Error executing query: ", text>>, complexity_score |-> 0]

ErrorResult(text) ==
    [success |-> FALSE, sql_query |-> <<>>,
     error_message |-> <<"Error executing query: ", text>>, complexity_score |-> 1]

\* CLTCFTAgent.execute_query of the current snapshot, steps 1 to 5 and the except
\* branch.  result is what ReActAgent.execute_query returned; include_debug_info is
\* the caller's flag and explanation_reply the collaborator's answer to the
\* explanation request, asked only when an explanation is needed.
ExecuteQuery(user_id, result, reply, csv_data) ==
    /\ snapshot = "current"
    /\ \E engine \in {ProcessReactOutput(user_profiles, user_id, result, reply, csv_data)} :
       \E include_debug_info \in BOOLEAN :
       \E explanation_reply \in IF engine.assessment.explanation_needed
                                THEN ExplanationReplies ELSE {"text"} :
       LET needed == engine.assessment.explanation_needed
       IN  /\ react_result' = result
           /\ llm_reply' = IF engine.decision_requests = 1 THEN reply ELSE NoReply
           /\ assessment' = engine.assessment
           /\ IF ~engine.raised
              THEN /\ user_profiles' = GetOrCreate(engine.profiles, user_id, csv_data)
                   /\ returned' =
                        [result |-> result,
                         explanation |-> IF needed
                                         THEN GenerateExplanation(engine.assessment, explanation_reply)
                                         ELSE "none",
                         debug |-> include_debug_info,
                         assessment |-> IF include_debug_info THEN engine.assessment
                                        ELSE NoAssessment]
                   /\ call' = [op |-> "execute_query", user_id |-> user_id, raised |-> FALSE,
                               source |-> engine.source,
                               decision_requests |-> engine.decision_requests,
                               explanation_requests |-> IF needed THEN 1 ELSE 0]
              ELSE /\ user_profiles' = IF include_debug_info
                                       THEN GetOrCreate(engine.profiles, user_id, csv_data)
                                       ELSE engine.profiles
                   /\ returned' =
                        [result |-> ErrorResult("TypeError"),
                         explanation |-> "none",
                         debug |-> include_debug_info,
                         assessment |-> IF include_debug_info THEN ErrorAssessment("TypeError")
                                        ELSE NoAssessment]
                   /\ call' = [op |-> "execute_query", user_id |-> user_id, raised |-> TRUE,
                               source |-> engine.source,
                               decision_requests |-> engine.decision_requests,
                               explanation_requests |-> 0]
    /\ UNCHANGED <<snapshot, scorerVars, reactVars, threads, now, profile_file, interaction_log>>

\* the mutant of the update: a failed write rolls the profile in memory back
UpdateUserProfile_RolledBack(user_id, user_query, a, write_ok) ==
    /\ snapshot = "current"
    /\ user_id \in DOMAIN user_profiles
    /\ LET profiles == Put(user_profiles, user_id,
                           UpdatedProfile(user_profiles[user_id], user_query, a))
       IN  /\ user_profiles' = IF write_ok THEN profiles ELSE user_profiles
           /\ profile_file' = SavedFile(profile_file, profiles, write_ok)
    /\ interaction_log' = Put(interaction_log, user_id,
            Append(IF user_id \in DOMAIN interaction_log THEN interaction_log[user_id] ELSE <<>>,
                   Interaction(user_query, a)))
    /\ now' = now + 1
    /\ assessment' = a
    /\ call' = [op |-> "_update_user_profile", user_id |-> user_id, raised |-> FALSE,
                source |-> "none", decision_requests |-> 0, explanation_requests |-> 0]
    /\ UNCHANGED <<snapshot, scorerVars, reactVars, threads, react_result, llm_reply, returned>>

\* CLTCFTAgent._update_user_profile of the current snapshot, a public step of the
\* profile store: history entry, cap, promotion, save.  A user without a profile
\* raises KeyError and changes nothing.
UpdateUserProfile(user_id, user_query, a, write_ok) ==
    /\ snapshot = "current"
    /\ user_id \in DOMAIN user_profiles
    /\ LET profiles == Put(user_profiles, user_id,
                           UpdatedProfile(user_profiles[user_id], user_query, a))
       IN  /\ user_profiles' = profiles
           /\ profile_file' = SavedFile(profile_file, profiles, write_ok)
    /\ interaction_log' = Put(interaction_log, user_id,
            Append(IF user_id \in DOMAIN interaction_log THEN interaction_log[user_id] ELSE <<>>,
                   Interaction(user_query, a)))
    /\ now' = now + 1
    /\ assessment' = a
    /\ call' = [op |-> "_update_user_profile", user_id |-> user_id, raised |-> FALSE,
                source |-> "none", decision_requests |-> 0, explanation_requests |-> 0]
    /\ UNCHANGED <<snapshot, scorerVars, reactVars, threads, react_result, llm_reply, returned>>

\* CLTCFTAgent.assess_user_cognitive_state of the legacy snapshot: get-or-create,
\* the three assessments, the decision, the profile update and its save
AssessUserCognitiveState(user_id, user_query, s, query_complexity, presentation_context, write_ok) ==
    /\ snapshot = "legacy"
    /\ LET known    == IF user_id \in DOMAIN user_profiles THEN user_profiles
                       ELSE Put(user_profiles, user_id, LegacyDefaultUserProfile(user_id))
           a        == LegacyAssessment(known[user_id], user_query, s, query_complexity,
                                        presentation_context)
           profiles == Put(known, user_id, LegacyUpdatedProfile(known[user_id], user_query, a))
       IN  /\ user_profiles' = profiles
           /\ profile_file' = SavedFile(profile_file, profiles, write_ok)
           /\ assessment' = a
           /\ interaction_log' = Put(interaction_log, user_id,
                Append(IF user_id \in DOMAIN interaction_log THEN interaction_log[user_id]
                       ELSE <<>>,
                       LegacyInteraction(user_query, a)))
    /\ now' = now + 1
    /\ react_result' = [success |-> TRUE, sql_query |-> s, error_message |-> NoError,
                        complexity_score |-> query_complexity]
    /\ call' = [op |-> "assess_user_cognitive_state", user_id |-> user_id, raised |-> FALSE,
                source |-> "rule", decision_requests |-> 0, explanation_requests |-> 0]
    /\ UNCHANGED <<snapshot, scorerVars, reactVars, threads, llm_reply, returned>>

-----------------------------------------------------------------------------
(* Threads inside _update_user_profile *)

\* Two callers of one agent object run CLTCFTAgent._update_user_profile for the
\* same user with no lock around it.  Each step below is one statement of lines
\* 812-838, or one half of a statement that reads the profile and writes it back.
Threads == {"t1", "t2"}

IdleThread == [pc |-> "idle", user_id |-> "", a |-> NoAssessment, interaction |-> <<>>,
               sliced |-> <<>>, current_level |-> 0, data |-> <<>>]

NoThreads == [t \in Threads |-> IdleThread]

ThreadAssessments ==
    {[intrinsic_load |-> 4, task_sql_concept |-> "advanced_logic",
      explanation_needed |-> FALSE, explanation_type |-> "none", reasoning |-> <<"reply">>],
     [intrinsic_load |-> 3, task_sql_concept |-> "aggregation",
      explanation_needed |-> TRUE, explanation_type |-> "basic", reasoning |-> <<"reply">>]}

ThreadSteps(t, pc, rest) ==
    /\ snapshot = "current"
    /\ threads[t].pc = pc
    /\ UNCHANGED <<snapshot, scorerVars, reactVars, react_result, llm_reply, assessment,
                   call, returned, interaction_log>>
    /\ UNCHANGED rest

\* lines 812-823: profile = self.user_profiles[user_id]; interaction = {...}
BeginUpdate(t, user_id, user_query, a) ==
    /\ ThreadSteps(t, "idle", <<user_profiles, profile_file>>)
    /\ user_id \in DOMAIN user_profiles
    /\ threads' = [threads EXCEPT ![t] =
                     [pc |-> "append", user_id |-> user_id, a |-> a,
                      interaction |-> Interaction(user_query, a),
                      sliced |-> <<>>, current_level |-> 0, data |-> <<>>]]
    /\ now' = now + 1

\* line 825: profile.prior_query_history.append(interaction)
AppendInteraction(t) ==
    /\ ThreadSteps(t, "append", <<now, profile_file>>)
    /\ user_profiles' = [user_profiles EXCEPT ![threads[t].user_id].prior_query_history =
                           Append(@, threads[t].interaction)]
    /\ threads' = [threads EXCEPT ![t].pc = "slice"]

\* line 827, right-hand side: profile.prior_query_history[-10:]
SliceHistory(t) ==
    /\ ThreadSteps(t, "slice", <<now, profile_file, user_profiles>>)
    /\ threads' = [threads EXCEPT
                     ![t].sliced = LastEntries(user_profiles[threads[t].user_id].prior_query_history),
                     ![t].pc = "store"]

\* line 827, assignment: profile.prior_query_history = <the slice>
StoreHistory(t) ==
    /\ ThreadSteps(t, "store", <<now, profile_file>>)
    /\ user_profiles' = [user_profiles EXCEPT ![threads[t].user_id].prior_query_history =
                           threads[t].sliced]
    /\ threads' = [threads EXCEPT ![t].pc = "check"]

\* lines 830-831: the test and current_level = profile.sql_concept_levels.get(concept, 1)
ReadLevel(t) ==
    /\ ThreadSteps(t, "check", <<now, profile_file, user_profiles>>)
    /\ threads' = [threads EXCEPT
                     ![t].current_level =
                         IF threads[t].a.intrinsic_load >= 4 /\ ~threads[t].a.explanation_needed
                         THEN ConceptLevel(user_profiles[threads[t].user_id].sql_concept_levels,
                                           threads[t].a.task_sql_concept)
                         ELSE 0,
                     ![t].pc =
                         IF threads[t].a.intrinsic_load >= 4 /\ ~threads[t].a.explanation_needed
                         THEN "write" ELSE "stamp"]

\* line 832: profile.sql_concept_levels[concept] = min(5, current_level + 1)
WriteLevel(t) ==
    /\ ThreadSteps(t, "write", <<now, profile_file>>)
    /\ user_profiles' =
         [user_profiles EXCEPT ![threads[t].user_id].sql_concept_levels =
            [c \in DOMAIN @ \cup {threads[t].a.task_sql_concept} |->
               IF c = threads[t].a.task_sql_concept
               THEN Min(5, threads[t].current_level + 1) ELSE @[c]]]
    /\ threads' = [threads EXCEPT ![t].pc = "stamp"]

\* lines 835-838: profile.last_updated = ...; self._save_user_profiles()
StampAndSave(t) ==
    /\ ThreadSteps(t, "stamp", <<now>>)
    /\ \E profiles \in {[user_profiles EXCEPT ![threads[t].user_id].last_updated = now]} :
         /\ user_profiles' = profiles
         /\ profile_file' = SavedFile(profile_file, profiles, TRUE)
    /\ threads' = [threads EXCEPT ![t].pc = "done"]

\* The same update with _save_user_profiles statement by statement, for callers
\* that update different users.
\* line 835: profile.last_updated = datetime.now().isoformat()
StampProfile(t) ==
    /\ ThreadSteps(t, "stamp", <<now, profile_file>>)
    /\ user_profiles' = [user_profiles EXCEPT ![threads[t].user_id].last_updated = now]
    /\ threads' = [threads EXCEPT ![t].pc = "collect"]

\* line 132: data = {user_id: asdict(profile) for ... in self.user_profiles.items()}
CollectProfiles(t) ==
    /\ ThreadSteps(t, "collect", <<now, profile_file, user_profiles>>)
    /\ threads' = [threads EXCEPT ![t].data = user_profiles, ![t].pc = "dump"]

\* lines 133-134: open(path, 'w') and json.dump(data, f): the file becomes data
DumpProfiles(t) ==
    /\ ThreadSteps(t, "dump", <<now, user_profiles>>)
    /\ profile_file' = SavedFile(profile_file, threads[t].data, TRUE)
    /\ threads' = [threads EXCEPT ![t].pc = "done"]

-----------------------------------------------------------------------------
(* ResponseParser and ReActAgent.execute_query *)

\* A completion is modelled by its lines.  `marker in content` is membership of
\* the marker's line, str.strip() removes the blank lines at both ends, and a
\* text is empty (falsy) when no line is left.  "[fence]" stands for the three
\* backquotes of a code fence.
MaxCompletionLen == 4

CompletionLines == {"REASONING:", "THINKING:", "SQL:", "VISUALIZATION:", "[fence]sql", "[fence]",
                    "SELECT 1;", "SELECT 1", "Because X", "This query returns one value."}

NoCompletion == [kind |-> "none", lines |-> <<>>]

\* response.content[0].text, or the request raised
Completions ==
    {[kind |-> "raise", lines |-> <<>>]}
    \cup {[kind |-> "text", lines |-> c] : c \in SeqsUpTo(CompletionLines, MaxCompletionLen)}

\* Completions that carry a statement of several lines: a WITH clause before
\* the main SELECT, or a subquery inside it
MaxStatementLen == 4

StatementLines == {"WITH t AS (", "SELECT a, (", "SELECT 1)", "SELECT * FROM t;", "FROM t;",
                   "SQL:", "This query returns one value."}

LongCompletions ==
    {[kind |-> "text", lines |-> c] : c \in SeqsUpTo(StatementLines, MaxStatementLen)}

Has(content, line) == \E i \in 1..Len(content) : content[i] = line

\* content.index(line), 1-based; 0 when absent
IndexOf(content, line) ==
    IF Has(content, line)
    THEN CHOOSE i \in 1..Len(content) :
            content[i] = line /\ \A j \in 1..(i - 1) : content[j] # line
    ELSE 0

\* str.strip()
Strip(content) ==
    LET inked == {i \in 1..Len(content) : content[i] # ""}
    IN  IF inked = {} THEN <<>>
        ELSE SubSeq(content, CHOOSE i \in inked : \A j \in inked : i <= j,
                             CHOOSE i \in inked : \A j \in inked : i >= j)

\* str.replace(marker, ""): the marker's line is left blank
Blanked(content, marker) ==
    [i \in 1..Len(content) |-> IF content[i] = marker THEN "" ELSE content[i]]

\* str.split(marker)
RECURSIVE Split(_, _)
Split(content, marker) ==
    IF ~Has(content, marker) THEN <<content>>
    ELSE <<SubSeq(content, 1, IndexOf(content, marker) - 1)>>
         \o Split(SubSeq(content, IndexOf(content, marker) + 1, Len(content)), marker)

EndsWithSemicolon(line) ==
    line \in {"SELECT 1;", "SELECT * FROM t LIMIT 100;", "SELECT * FROM t;", "FROM t;"}

\* re.search(r'SELECT', line, re.IGNORECASE) and so on for the five patterns
StatementKeywords == <<"SELECT", "WITH", "INSERT", "UPDATE", "DELETE">>
KeywordIn(line, keyword) ==
    \/ keyword = "SELECT" /\ line \in {"SELECT 1;", "SELECT 1", "SELECT a, (", "SELECT 1)",
                                       "SELECT * FROM t;"}
    \/ keyword = "WITH" /\ line = "WITH t AS ("

\* the mutant of the legacy parser: the reasoning marker is left in the rationale
GenerateSqlWithReasoning_MarkerKept(c) ==
    IF c.kind = "raise" THEN [sql_query |-> <<>>, reasoning |-> <<"Error">>]
    ELSE IF Has(c.lines, "REASONING:") /\ Has(c.lines, "SQL:")
    THEN LET parts     == Split(c.lines, "SQL:")
             sql       == Strip(parts[2])
             unfenced  == IF sql # <<>> /\ Head(sql) = "[fence]sql" THEN Strip(Tail(sql)) ELSE sql
             unclosed  == IF unfenced # <<>> /\ unfenced[Len(unfenced)] = "[fence]"
                          THEN Strip(SubSeq(unfenced, 1, Len(unfenced) - 1)) ELSE unfenced
         IN  [sql_query |-> Strip(unclosed), reasoning |-> Strip(parts[1])]
    ELSE [sql_query |-> Strip(c.lines), reasoning |-> <<"Reasoning not available">>]

\* legacy ReActAgent._generate_sql_with_reasoning, lines 148-181, on the completion
GenerateSqlWithReasoning(c) ==
    IF c.kind = "raise" THEN [sql_query |-> <<>>, reasoning |-> <<"Error">>]
    ELSE IF Has(c.lines, "REASONING:") /\ Has(c.lines, "SQL:")
    THEN LET parts     == Split(c.lines, "SQL:")
             sql       == Strip(parts[2])
             unfenced  == IF sql # <<>> /\ Head(sql) = "[fence]sql" THEN Strip(Tail(sql)) ELSE sql
             unclosed  == IF unfenced # <<>> /\ unfenced[Len(unfenced)] = "[fence]"
                          THEN Strip(SubSeq(unfenced, 1, Len(unfenced) - 1)) ELSE unfenced
         IN  [sql_query |-> Strip(unclosed),
              reasoning |-> Strip(Blanked(parts[1], "REASONING:"))]
    ELSE [sql_query |-> Strip(c.lines), reasoning |-> <<"Reasoning not available">>]

\* current ReActAgent._extract_section; end_marker "" stands for None
ExtractSection(content, start_marker, end_marker) ==
    IF ~Has(content, start_marker) THEN <<>>
    ELSE LET rest == SubSeq(content, IndexOf(content, start_marker) + 1, Len(content))
         IN  IF end_marker # "" /\ Has(rest, end_marker)
             THEN Strip(SubSeq(rest, 1, IndexOf(rest, end_marker) - 1))
             ELSE Strip(rest)

ExtractSqlFromResponse(content) ==
    LET sql_section == ExtractSection(content, "SQL:", "VISUALIZATION:")
    IN  IF sql_section # <<>> THEN Strip(sql_section)
        ELSE Strip(ExtractSection(content, "SQL:", ""))

\* (KEYWORD[\s\S]+?;): from the first line with the keyword to the first
\* semicolon after it
PatternMatch(content, keyword) ==
    LET starts == {i \in 1..Len(content) : KeywordIn(content[i], keyword)}
        first  == CHOOSE i \in starts : \A j \in starts : i <= j
        ends   == {i \in first..Len(content) : EndsWithSemicolon(content[i])}
    IN  IF starts = {} \/ ends = {} THEN <<>>
        ELSE SubSeq(content, first, CHOOSE i \in ends : \A j \in ends : i <= j)

RECURSIVE FirstPattern(_, _)
FirstPattern(content, k) ==
    IF k > Len(StatementKeywords) THEN <<>>
    ELSE IF PatternMatch(content, StatementKeywords[k]) # <<>>
    THEN PatternMatch(content, StatementKeywords[k])
    ELSE FirstPattern(content, k + 1)

ExtractSqlFallback(content) == FirstPattern(content, 1)

\* _clean_and_validate_sql: fences removed, stripped, a semicolon appended
CleanAndValidateSql(sql_text) ==
    IF sql_text = <<>> THEN <<>>
    ELSE LET unfenced == Strip(SelectSeq(sql_text, LAMBDA line : line \notin {"[fence]sql", "[fence]"}))
         IN  IF unfenced = <<>> \/ EndsWithSemicolon(unfenced[Len(unfenced)]) THEN unfenced
             ELSE [unfenced EXCEPT ![Len(unfenced)] = @ \o ";"]

Unable == "SELECT 'Unable to generate SQL for this request' as message;"

ReActUserQueries == {"show the tables", "sales by region"}

\* _generate_fallback_sql for a schema with a table t
GenerateFallbackSql(user_query) ==
    IF user_query = "show the tables" THEN <<"SELECT * FROM t LIMIT 100;">> ELSE <<Unable>>

\* current ReActAgent._generate_sql_with_extended_thinking, lines 322-342
GenerateSqlWithExtendedThinking(c, user_query) ==
    IF c.kind = "raise"
    THEN [sql_query |-> GenerateFallbackSql(user_query), reasoning |-> <<"Error">>]
    ELSE LET extracted == ExtractSqlFromResponse(c.lines)
             thinking  == ExtractSection(c.lines, "THINKING:", "SQL:")
             sql       == IF extracted = <<>> THEN ExtractSqlFallback(c.lines) ELSE extracted
         IN  [sql_query |-> CleanAndValidateSql(sql),
              reasoning |-> IF thinking = <<>> THEN <<"Direct SQL generation">> ELSE thinking]

NoRun == [done |-> FALSE, statement |-> <<>>, rationale |-> <<>>, generation_requests |-> 0,
          executed |-> <<>>, success |-> FALSE, error_message |-> NoError]

ReActStep ==
    /\ ~react_run.done
    /\ completion # NoCompletion
    /\ UNCHANGED <<snapshot, scorerVars, agentVars, completion>>

\* legacy ReActAgent.execute_query: one generation request, then the statement
\* goes to the database unless it is empty
LegacyReActExecuteQuery(user_query, db_ok) ==
    /\ snapshot = "legacy"
    /\ ReActStep
    /\ \E generated \in {GenerateSqlWithReasoning(completion)} :
         react_run' =
            [done |-> TRUE, statement |-> generated.sql_query,
             rationale |-> generated.reasoning, generation_requests |-> 1,
             executed |-> IF generated.sql_query = <<>> THEN <<>>
                          ELSE <<generated.sql_query>>,
             success |-> generated.sql_query # <<>> /\ db_ok,
             error_message |-> IF generated.sql_query = <<>>
                               THEN "Failed to generate SQL query"
                               ELSE IF db_ok THEN NoError ELSE "SQL execution error"]

\* current ReActAgent.execute_query: an empty statement or the fallback's
\* message statement goes to _handle_direct_request, anything else to the database
ReActExecuteQuery(user_query, db_ok) ==
    /\ snapshot = "current"
    /\ ReActStep
    /\ \E generated \in {GenerateSqlWithExtendedThinking(completion, user_query)} :
       LET direct == generated.sql_query = <<>> \/ generated.sql_query = <<Unable>>
       IN  react_run' =
              [done |-> TRUE, statement |-> generated.sql_query,
               rationale |-> generated.reasoning, generation_requests |-> 1,
               executed |-> IF direct THEN <<>> ELSE <<generated.sql_query>>,
               success |-> IF direct THEN user_query = "show the tables" ELSE db_ok,
               error_message |-> IF direct
                                 THEN (IF user_query = "show the tables" THEN NoError
                                       ELSE "Could not process request. Please try rephrasing.")
                                 ELSE IF db_ok THEN NoError ELSE "SQL execution error"]

-----------------------------------------------------------------------------
(* Construction: __init__ and _load_user_profiles *)

EmptyDict == [u \in {} |-> {}]

\* records user_profiles.json may hold for u1 when the process starts
StoredProfiles(snap) ==
    IF snap = "current"
    THEN {[user_id |-> "u1", sql_expertise_level |-> 5, cognitive_load_capacity |-> 3,
           sql_concept_levels |->
              [c \in Concepts |-> CASE c = "basic_select" -> 3
                                    [] c = "aggregation" -> 4
                                    [] c = "joins" -> 5
                                    [] c = "advanced_logic" -> 2
                                    [] OTHER -> 1],
           prior_query_history |-> <<>>, last_updated |-> 0]}
    ELSE {[user_id |-> "u1", sql_expertise_level |-> e.sql, domain_knowledge |-> e.dk,
           cognitive_load_capacity |-> e.cap,
           prior_query_history |-> <<>>, last_updated |-> 0] :
            e \in {[sql |-> 4, dk |-> 4, cap |-> 3], [sql |-> 3, dk |-> 3, cap |-> 5]}}

InitAgent ==
    /\ snapshot \in Snapshots
    /\ user_profiles \in {EmptyDict} \cup {Put(EmptyDict, "u1", p) : p \in StoredProfiles(snapshot)}
    /\ profile_file = user_profiles
    /\ interaction_log = EmptyDict
    /\ now = 1
    /\ react_result = NoResult
    /\ llm_reply = NoReply
    /\ assessment = NoAssessment
    /\ call = NoCall
    /\ returned = NoReturn
    /\ threads = NoThreads

IdleScorer ==
    /\ sql_query = <<>>
    /\ complexity_score = 0
    /\ first_score = 0
    /\ score_calls = 0
    /\ classified = ""

\* no completion received, nothing parsed or executed
IdleReact ==
    /\ completion = NoCompletion
    /\ react_run = NoRun

Init == InitAgent /\ IdleScorer /\ IdleReact

\* inputs of the legacy assessment
UserQueries == {<<"show", "sales">>, <<"sum", "of", "sales">>}
LegacyStatements ==
    { <<"SELECT", "x", "WHERE", "x">>,
      <<"SELECT", "SUM", "(", "x", ")">>,
      <<"SELECT", "x", "JOIN", "x", "JOIN", "x", "GROUP", "BY", "x">> }
PresentationContexts == {{}, {"multiple_interfaces"}}

\* the replies that matter for a result: a failed result asks nothing
ReplyChoices(result) == IF result.success THEN Replies ELSE {NoReply}
\* the CSV lookups that matter: none once the profile exists
CsvChoices(user_id) ==
    IF user_id \in DOMAIN user_profiles THEN {[found |-> FALSE, sql_expertise_level |-> 0]}
    ELSE CsvOutcomes

MaxInteractions == 2   \* legacy interactions in a run of Spec
MaxUpdates == 2        \* profile updates in a run of SpecProfile
MaxHistoryRuns == 15   \* profile updates in a run of SpecHistory

\* Spec: the assessment engine of either snapshot, one user
Next ==
    \/ \E result \in ReActResults :
         \E reply \in ReplyChoices(result), csv_data \in CsvChoices("u1") :
            ExecuteQuery("u1", result, reply, csv_data)
    \/ /\ now <= MaxInteractions
       /\ \E user_query \in UserQueries, s \in LegacyStatements,
             presentation_context \in PresentationContexts :
            AssessUserCognitiveState("u1", user_query, s, LegacyAssessQueryComplexity(s),
                                     presentation_context, TRUE)

\* SpecProfile: the profile store under updates for two users.  Profiles come
\* from the file, from an interaction that finds the collaborator down, or (legacy)
\* from the assessment itself.
DirectResult == [success |-> TRUE, sql_query |-> <<>>, error_message |-> NoError,
                 complexity_score |-> 1]
Unreachable == Reply("raise", {}, FALSE, "none")
ProfileCsvOutcomes == {o \in CsvOutcomes : o.found => o.sql_expertise_level = 5}

Assessed(load, concept, needed) ==
    [intrinsic_load |-> load, task_sql_concept |-> concept, explanation_needed |-> needed,
     explanation_type |-> IF needed THEN "basic" ELSE "none",
     reasoning |-> <<"reply">>]

UpdateAssessments ==
    {Assessed(l, c, n) : l \in {3, 4}, c \in {"joins", "aggregation"}, n \in BOOLEAN}

NextProfile ==
    \/ \E user_id \in UserIds :
         /\ user_id \notin DOMAIN user_profiles
         /\ \E csv_data \in ProfileCsvOutcomes :
              ExecuteQuery(user_id, DirectResult, Unreachable, csv_data)
    \/ /\ now <= MaxUpdates
       /\ \E user_id \in UserIds, a \in UpdateAssessments, write_ok \in BOOLEAN :
            UpdateUserProfile(user_id, <<"show", "sales">>, a, write_ok)
    \/ /\ now <= MaxUpdates
       /\ \E user_id \in UserIds, s \in LegacyStatements, write_ok \in BOOLEAN :
            AssessUserCognitiveState(user_id, <<"sum", "of", "sales">>, s,
                                     LegacyAssessQueryComplexity(s), {}, write_ok)

\* SpecHistory: one user's history under a long run of updates
InitHistory == Init /\ (snapshot = "current" => "u1" \in DOMAIN user_profiles)

NextHistory ==
    \/ /\ now <= MaxHistoryRuns
       /\ \E write_ok \in BOOLEAN :
            UpdateUserProfile("u1", <<"show", "sales">>, Assessed(4, "joins", FALSE), write_ok)
    \/ /\ now <= MaxHistoryRuns
       /\ \E write_ok \in BOOLEAN :
            AssessUserCognitiveState("u1", <<"sum", "of", "sales">>,
                                     <<"SELECT", "x", "WHERE", "x">>,
                                     LegacyAssessQueryComplexity(<<"SELECT", "x", "WHERE", "x">>),
                                     {}, write_ok)

\* SpecThreads: two threads update u1's stored profile at the same time
InitThreads == Init /\ snapshot = "current" /\ "u1" \in DOMAIN user_profiles

NextThreads ==
    \/ \E t \in Threads, a \in ThreadAssessments : BeginUpdate(t, "u1", <<"show", "sales">>, a)
    \/ \E t \in Threads : AppendInteraction(t)
    \/ \E t \in Threads : SliceHistory(t)
    \/ \E t \in Threads : StoreHistory(t)
    \/ \E t \in Threads : ReadLevel(t)
    \/ \E t \in Threads : WriteLevel(t)
    \/ \E t \in Threads : StampAndSave(t)

\* SpecStore: thread t1 updates u1 and thread t2 updates u2; both profiles are
\* in memory and in the file when the updates start
UserOf(t) == IF t = "t1" THEN "u1" ELSE "u2"

InitStore ==
    /\ snapshot = "current"
    /\ now = 1
    /\ \E stored \in StoredProfiles("current") :
          user_profiles = Put(Put(EmptyDict, "u1", stored), "u2", CreateDefaultUserProfile("u2"))
    /\ profile_file = user_profiles
    /\ interaction_log = EmptyDict
    /\ react_result = NoResult
    /\ llm_reply = NoReply
    /\ assessment = NoAssessment
    /\ call = NoCall
    /\ returned = NoReturn
    /\ threads = NoThreads
    /\ IdleScorer
    /\ IdleReact

NextStore ==
    \/ \E t \in Threads, a \in ThreadAssessments : BeginUpdate(t, UserOf(t), <<"show", "sales">>, a)
    \/ \E t \in Threads : AppendInteraction(t)
    \/ \E t \in Threads : SliceHistory(t)
    \/ \E t \in Threads : StoreHistory(t)
    \/ \E t \in Threads : ReadLevel(t)
    \/ \E t \in Threads : WriteLevel(t)
    \/ \E t \in Threads : StampProfile(t)
    \/ \E t \in Threads : CollectProfiles(t)
    \/ \E t \in Threads : DumpProfiles(t)

-----------------------------------------------------------------------------
(* Scorer harness: a statement is drawn and scored repeatedly *)

IdleAgent ==
    /\ user_profiles = EmptyDict
    /\ profile_file = EmptyDict
    /\ interaction_log = EmptyDict
    /\ now = 1
    /\ react_result = NoResult
    /\ llm_reply = NoReply
    /\ assessment = NoAssessment
    /\ call = NoCall
    /\ returned = NoReturn
    /\ threads = NoThreads

\* SpecParser: one completion arrives and ReActAgent.execute_query handles it
InitParser ==
    /\ snapshot \in Snapshots
    /\ completion \in Completions
    /\ react_run = NoRun
    /\ IdleAgent
    /\ IdleScorer

\* SpecSubquery: the same, for completions with statements of several lines
InitSubquery ==
    /\ snapshot \in Snapshots
    /\ completion \in LongCompletions
    /\ react_run = NoRun
    /\ IdleAgent
    /\ IdleScorer

NextParser ==
    \/ \E db_ok \in BOOLEAN : LegacyReActExecuteQuery("sales by region", db_ok)
    \/ \E user_query \in ReActUserQueries, db_ok \in BOOLEAN : ReActExecuteQuery(user_query, db_ok)

InitScorer ==
    /\ snapshot \in Snapshots
    /\ sql_query \in Statements
    /\ complexity_score = 0
    /\ first_score = 0
    /\ score_calls = 0
    /\ classified = ""
    /\ IdleAgent
    /\ IdleReact

ScoreStatement ==
    /\ score_calls < MaxScoreCalls
    /\ complexity_score' = ComplexityScorer(sql_query)
    /\ first_score' = IF score_calls = 0 THEN ComplexityScorer(sql_query) ELSE first_score
    /\ score_calls' = score_calls + 1
    /\ UNCHANGED <<snapshot, sql_query, classified, agentVars, reactVars>>

\* CLTCFTAgent._classify_sql_task on the drawn statement (current snapshot only:
\* the legacy agent has no classifier)
ClassifyStatement ==
    /\ snapshot = "current"
    /\ classified = ""
    /\ classified' = ClassifySqlTask(sql_query)
    /\ UNCHANGED <<snapshot, sql_query, complexity_score, first_score, score_calls, agentVars, reactVars>>

NextScorer ==
    \/ ScoreStatement
    \/ ClassifyStatement

vars == <<snapshot, scorerVars, agentVars, reactVars>>

SpecScorer == InitScorer /\ [][NextScorer]_vars

Spec == Init /\ [][Next]_vars

SpecProfile == Init /\ [][NextProfile]_vars

SpecHistory == InitHistory /\ [][NextHistory]_vars

SpecThreads == InitThreads /\ [][NextThreads]_vars

SpecParser == InitParser /\ [][NextParser]_vars

SpecStore == InitStore /\ [][NextStore]_vars

SpecSubquery == InitSubquery /\ [][NextParser]_vars

-----------------------------------------------------------------------------
(* Properties *)

\* execute_query has just returned an assessment decided by the rule
AssessedByRule == call.op = "execute_query" /\ ~call.raised /\ call.source = "rule"

C2_FallbackPoints ==
    AssessedByRule =>
        LET e == user_profiles[call.user_id].sql_expertise_level
            l == assessment.intrinsic_load
        IN  /\ (e = 5 /\ l = 2) => ~assessment.explanation_needed
            /\ (e = 1 /\ l = 5) => /\ assessment.explanation_needed
                                   /\ assessment.explanation_type = "basic"
            /\ <<assessment.explanation_needed, assessment.explanation_type>> =
                 IF l <= e THEN <<FALSE, "none">>
                 ELSE <<TRUE, CASE e <= 2 -> "basic" [] e = 3 -> "intermediate"
                                [] OTHER -> "advanced">>

\* a novice's rule decision on the hardest statement
C2_Witness ==
    /\ AssessedByRule
    /\ user_profiles[call.user_id].sql_expertise_level = 1
    /\ assessment.intrinsic_load = 5
    /\ assessment.explanation_needed
    /\ assessment.explanation_type = "basic"

\* C3 as stated: for expertise and load in 1..5 the rule asks for an explanation
\* exactly when load > expertise * 2, with the type by expertise.
C3_DoubledThreshold ==
    AssessedByRule =>
        LET e == user_profiles[call.user_id].sql_expertise_level
            l == assessment.intrinsic_load
        IN  (e \in 1..5 /\ l \in 1..5) =>
                /\ assessment.explanation_needed <=> (l > e * 2)
                /\ assessment.explanation_type =
                     IF ~assessment.explanation_needed THEN "none"
                     ELSE IF e <= 2 THEN "basic"
                     ELSE IF e = 3 THEN "intermediate"
                     ELSE "advanced"

\* C3: for expertise and load in 1..5 the rule asks for an explanation exactly
\* when load > expertise, with type "none" when not needed, "basic" for expertise
\* up to 2, "intermediate" for 3 and "advanced" above.
C3_Threshold ==
    AssessedByRule =>
        LET e == user_profiles[call.user_id].sql_expertise_level
            l == assessment.intrinsic_load
        IN  (e \in 1..5 /\ l \in 1..5) =>
                /\ assessment.explanation_needed <=> (l > e)
                /\ assessment.explanation_type =
                     IF ~assessment.explanation_needed THEN "none"
                     ELSE IF e <= 2 THEN "basic"
                     ELSE IF e = 3 THEN "intermediate"
                     ELSE "advanced"

\* load between expertise and twice the expertise: an explanation is asked for
C3_Witness ==
    /\ AssessedByRule
    /\ user_profiles[call.user_id].sql_expertise_level = 3
    /\ assessment.intrinsic_load = 4
    /\ assessment.explanation_needed
    /\ assessment.explanation_type = "intermediate"

\* C4: an assessment the rule produces for expertise >= 4 and load <= 2 has
\* explanation_needed false, whatever capacity, extraneous load and fit are.
C4_ExpertiseReversal ==
    (/\ call.op \in {"execute_query", "assess_user_cognitive_state"}
     /\ ~call.raised
     /\ call.source = "rule"
     /\ user_profiles[call.user_id].sql_expertise_level >= 4
     /\ assessment.intrinsic_load <= 2)
        => ~assessment.explanation_needed

\* C5: a collaborator that raises, or whose reply is not a JSON object holding
\* the three fields, leaves the engine on the rule: no exception, the rule's
\* decision for (expertise, load), marked as the rule's.
C5_FallbackOnBadReply ==
    (/\ call.op = "execute_query"
     /\ react_result.success
     /\ llm_reply # NoReply
     /\ (llm_reply.kind # "object" \/ ~(DecisionKeys \subseteq llm_reply.keys)))
        => /\ ~call.raised
           /\ call.source = "rule"
           /\ LET e == user_profiles[call.user_id].sql_expertise_level
                  l == assessment.intrinsic_load
              IN  /\ assessment.explanation_needed <=> (l > e)
                  /\ assessment.explanation_type =
                       FallbackDecision(e, l).explanation_type

\* C6 as stated: a failed result is assessed as load 5, concept "error", needed,
\* type "error_handling", reasoning equal to the error text, no decision request.
C6_ReasoningIsErrorText ==
    (call.op = "execute_query" /\ ~react_result.success) =>
        /\ assessment = [intrinsic_load |-> 5, task_sql_concept |-> "error",
                         explanation_needed |-> TRUE,
                         explanation_type |-> "error_handling",
                         reasoning |-> <<react_result.error_message>>]
        /\ call.decision_requests = 0

\* C6: a failed result is assessed as load 5, concept "error", needed, type
\* "error_handling", reasoning "Query execution failed: " followed by the error
\* text, and no decision is requested from the collaborator.
C6_FailedResult ==
    (call.op = "execute_query" /\ ~react_result.success) =>
        /\ assessment = [intrinsic_load |-> 5, task_sql_concept |-> "error",
                         explanation_needed |-> TRUE,
                         explanation_type |-> "error_handling",
                         reasoning |-> <<"Query execution failed: ",
                                         react_result.error_message>>]
        /\ call.decision_requests = 0
        /\ llm_reply = NoReply

\* a failed result has been processed
C6_Witness ==
    /\ call.op = "execute_query"
    /\ ~react_result.success
    /\ react_result.error_message \in ErrorMessages
    /\ assessment.explanation_type = "error_handling"

\* C7: a user's stored history holds the last min(n, 10) of the n interactions
\* recorded for the user, oldest first; after 15 updates these are 6..15.
C7_HistoryIsLastTen ==
    \A u \in DOMAIN user_profiles :
        LET log  == IF u \in DOMAIN interaction_log THEN interaction_log[u] ELSE <<>>
            n    == Len(log)
            kept == IF n <= 10 THEN n ELSE 10
            h    == user_profiles[u].prior_query_history
        IN  /\ Len(h) = kept
            /\ \A i \in 1..kept : h[i] = log[n - kept + i]
            /\ n = 15 => h = [i \in 1..10 |-> log[i + 5]]

\* fifteen updates done: ten entries, the oldest one the sixth interaction
C7_Witness ==
    /\ "u1" \in DOMAIN interaction_log
    /\ Len(interaction_log["u1"]) = 15
    /\ Len(user_profiles["u1"].prior_query_history) = 10
    /\ user_profiles["u1"].prior_query_history[1].timestamp = 6
    /\ user_profiles["u1"].prior_query_history[10].timestamp = 15

\* C8: an update with load >= 4 and no explanation needed raises the concept's
\* level by one, or leaves it at 5; any other update leaves it as it was; no
\* concept level is ever above 5.
C8_PromotionClamped ==
    /\ [](snapshot = "current" =>
            \A u \in DOMAIN user_profiles :
               \A c \in DOMAIN user_profiles[u].sql_concept_levels :
                  user_profiles[u].sql_concept_levels[c] <= 5)
    /\ [][(snapshot = "current" /\ call'.op = "_update_user_profile" /\ now' = now + 1) =>
            LET u      == call'.user_id
                a      == assessment'
                before == user_profiles[u].sql_concept_levels[a.task_sql_concept]
                after  == user_profiles'[u].sql_concept_levels[a.task_sql_concept]
            IN  after = IF a.intrinsic_load >= 4 /\ ~a.explanation_needed
                        THEN (IF before = 5 THEN 5 ELSE before + 1)
                        ELSE before]_vars

\* a promotion has just been applied to a concept that is now at the top level
C8_Witness ==
    /\ call.op = "_update_user_profile"
    /\ assessment.intrinsic_load >= 4
    /\ ~assessment.explanation_needed
    /\ user_profiles[call.user_id].sql_concept_levels[assessment.task_sql_concept] = 5
    /\ Len(user_profiles[call.user_id].prior_query_history) = 2

\* C9: an assessment with explanation_needed false has explanation_type "none",
\* whether the rule, the collaborator's reply or the legacy rule decided.
C9_NoneWhenNotNeeded ==
    \A a \in {assessment, returned.assessment} :
        (a # NoAssessment /\ ~a.explanation_needed) => a.explanation_type = "none"

\* the collaborator declined an explanation but named a type
C9_Witness ==
    /\ call.op = "execute_query"
    /\ call.source = "delegated"
    /\ ~call.raised
    /\ ~llm_reply.explanation_needed
    /\ llm_reply.explanation_type = "basic"
    /\ assessment.explanation_type = "none"

\* C10 as stated: every assessment's concept, for a successful or a failed
\* result, is one of the six buckets.
C10_AlwaysBucket ==
    (call.op = "execute_query" /\ assessment # NoAssessment) =>
        assessment.task_sql_concept \in Concepts

\* C10: the concept assessed for a successful result is one of the six buckets;
\* for a failed result, and in the assessment execute_query reports after an
\* exception, it is "error".
C10_BucketOrError ==
    call.op = "execute_query" =>
        /\ (react_result.success /\ ~call.raised) => assessment.task_sql_concept \in Concepts
        /\ ~react_result.success => assessment.task_sql_concept = "error"
        /\ (call.raised /\ returned.debug) => returned.assessment.task_sql_concept = "error"

\* a statement with no keyword of any bucket has been classified
C10_Witness ==
    /\ call.op = "execute_query"
    /\ react_result.success
    /\ ~call.raised
    /\ react_result.sql_query = <<>>
    /\ assessment.task_sql_concept = "basic_select"

\* C11 as stated: a profile created for an unknown user has expertise 2,
\* capacity 3, all six concept levels 1 and an empty history.
C11_DefaultAsStated ==
    [][\A u \in UserIds :
         (snapshot = "current" /\ u \notin DOMAIN user_profiles /\ u \in DOMAIN user_profiles') =>
            /\ user_profiles'[u].sql_expertise_level = 2
            /\ user_profiles'[u].cognitive_load_capacity = 3
            /\ user_profiles'[u].sql_concept_levels = [c \in Concepts |-> 1]
            /\ user_profiles'[u].prior_query_history = <<>>]_vars

\* C11: a profile created for an unknown user has an empty history and is built
\* from the user's CSV record (expertise e, capacity max(1, min(3, e - 1)), levels
\* derived from e) or else is the default: expertise 2, capacity 2, basic_select 2
\* and the other five levels 1.  The legacy default is expertise 2, domain
\* knowledge 2, capacity 3, holding the interaction that created it.
C11_CreatedProfile ==
    [][\A u \in UserIds :
         (u \notin DOMAIN user_profiles /\ u \in DOMAIN user_profiles') =>
            IF snapshot = "current"
            THEN /\ user_profiles'[u].prior_query_history = <<>>
                 /\ user_profiles'[u].user_id = u
                 /\ \/ /\ user_profiles'[u].sql_expertise_level = 2
                       /\ user_profiles'[u].cognitive_load_capacity = 2
                       /\ user_profiles'[u].sql_concept_levels =
                            [c \in Concepts |-> IF c = "basic_select" THEN 2 ELSE 1]
                    \/ \E e \in 0..6 :
                       /\ user_profiles'[u].sql_expertise_level = e
                       /\ user_profiles'[u].cognitive_load_capacity =
                            (IF e <= 2 THEN 1 ELSE IF e >= 4 THEN 3 ELSE e - 1)
                       /\ user_profiles'[u].sql_concept_levels["basic_select"] =
                            (IF e <= 3 THEN e ELSE 3)
                       /\ user_profiles'[u].sql_concept_levels["aggregation"] =
                            (IF e <= 2 THEN 1 ELSE e - 1)
                       /\ user_profiles'[u].sql_concept_levels["joins"] =
                            (IF e <= 3 THEN 1 ELSE e - 2)
                       /\ user_profiles'[u].sql_concept_levels["advanced_logic"] =
                            (IF e <= 4 THEN 1 ELSE e - 3)
                       /\ user_profiles'[u].sql_concept_levels["window_functions"] =
                            (IF e <= 5 THEN 1 ELSE e - 4)
                       /\ user_profiles'[u].sql_concept_levels["advanced_analytics"] =
                            (IF e <= 5 THEN 1 ELSE e - 4)
            ELSE /\ user_profiles'[u].sql_expertise_level = 2
                 /\ user_profiles'[u].domain_knowledge = 2
                 /\ user_profiles'[u].cognitive_load_capacity = 3
                 /\ Len(user_profiles'[u].prior_query_history) = 1]_vars

\* the default profile has just been created for u1: no CSV record was found
C11_Witness ==
    /\ snapshot = "current"
    /\ call.op = "execute_query"
    /\ "u1" \in DOMAIN user_profiles
    /\ user_profiles["u1"].last_updated = now
    /\ user_profiles["u1"].cognitive_load_capacity = 2
    /\ user_profiles["u1"].sql_concept_levels["basic_select"] = 2
    /\ user_profiles["u1"].prior_query_history = <<>>

\* C12: every interaction that produces an assessment appends exactly one entry
\* to that user's history (the profile is updated once per interaction).
C12_UpdatedOncePerInteraction ==
    [][(/\ call'.op \in {"execute_query", "assess_user_cognitive_state"}
        /\ ~call'.raised
        /\ assessment' # NoAssessment) =>
          /\ call'.user_id \in DOMAIN user_profiles'
          /\ Len(user_profiles'[call'.user_id].prior_query_history) =
               (IF call'.user_id \in DOMAIN user_profiles
                THEN Len(user_profiles[call'.user_id].prior_query_history) ELSE 0) + 1]_vars

\* C14: execute_query asks the collaborator for explanation content exactly when
\* the assessment has explanation_needed true, and then returns content; when
\* it is false it returns no explanation content.
C14_ExplainedIffNeeded ==
    call.op = "execute_query" =>
        /\ call.explanation_requests = 1 <=> assessment.explanation_needed
        /\ call.explanation_requests \in {0, 1}
        /\ assessment.explanation_needed => returned.explanation \in {"generated", "apology"}
        /\ ~assessment.explanation_needed => returned.explanation = "none"

\* an explanation was needed, requested and built
C14_Witness ==
    /\ call.op = "execute_query"
    /\ react_result.success
    /\ assessment.explanation_needed
    /\ call.explanation_requests = 1
    /\ returned.explanation = "generated"

\* C13: when two updates of one user run at the same time, the profile they leave
\* is the one some sequential order of the two leaves: both history entries are
\* there and both promotions are applied.
C13_Serialized ==
    (\A t \in Threads : threads[t].pc = "done") =>
        \E first \in Threads : \E second \in Threads \ {first} :
            LET p == user_profiles[threads[first].user_id]
            IN  /\ p.prior_query_history =
                     <<threads[first].interaction, threads[second].interaction>>
                /\ \A c \in DOMAIN p.sql_concept_levels :
                     p.sql_concept_levels[c] =
                        LET promotions == Cardinality({t \in Threads :
                                             /\ threads[t].a.task_sql_concept = c
                                             /\ threads[t].a.intrinsic_load >= 4
                                             /\ ~threads[t].a.explanation_needed})
                            stored == (CHOOSE s \in StoredProfiles("current") : TRUE)
                                         .sql_concept_levels[c]
                        IN  IF stored + promotions <= 5 THEN stored + promotions ELSE 5

\* C15: a completion in which no line starts with a statement keyword yields an
\* empty statement, and the interaction ends as a failure: nothing is handed to
\* the database and the completion was requested once.
KeywordLine(line) == \E k \in 1..Len(StatementKeywords) : KeywordIn(line, StatementKeywords[k])

C15_EmptyStatementIsTerminal ==
    (/\ react_run.done
     /\ completion.kind = "text"
     /\ \A i \in 1..Len(completion.lines) : ~KeywordLine(completion.lines[i]))
    => /\ react_run.statement = <<>>
       /\ ~react_run.success
       /\ react_run.executed = <<>>
       /\ react_run.generation_requests = 1

\* A completion in the format the prompt asks for: the reasoning marker on the
\* first line, the rationale, one statement marker, the statement ending in a
\* semicolon; no fences and no further section.
ReasoningMarker(s) == IF s = "legacy" THEN "REASONING:" ELSE "THINKING:"

InFormat(content, marker) ==
    /\ Len(content) >= 4
    /\ content[1] = marker
    /\ \A i \in 2..Len(content) : content[i] \notin {marker, "VISUALIZATION:", "[fence]sql", "[fence]"}
    /\ \E k \in 3..(Len(content) - 1) : \A i \in 1..Len(content) : content[i] = "SQL:" <=> i = k
    /\ EndsWithSemicolon(content[Len(content)])

C17_FencedStatementOnly ==
    (/\ react_run.done
     /\ completion.kind = "text"
     /\ Len(completion.lines) = 4
     /\ completion.lines[1] = "[fence]sql"
     /\ KeywordLine(completion.lines[2])
     /\ completion.lines[3] = "[fence]"
     /\ completion.lines[4] \in {"This query returns one value.", "Because X"})
    => react_run.statement = <<completion.lines[2]>>

\* The reference value of the spec's ComplexityScorer: the highest level whose
\* indicator set has a keyword in the upper-cased statement (1 if none), floored
\* at 4 for more than one SELECT and at 5 for more than one JOIN, capped at 5.
ReferenceScore(s) ==
    LET matching == {level \in 1..5 : \E kw \in complexity_patterns(level) : Contains(Upper(s), kw)}
        highest  == IF matching = {} THEN 1
                    ELSE CHOOSE level \in matching : \A other \in matching : other <= level
        floor4   == IF Count(Upper(s), "SELECT") > 1 /\ highest < 4 THEN 4 ELSE highest
        floor5   == IF Count(Upper(s), "JOIN") > 1 THEN 5 ELSE floor4
    IN  IF floor5 > 5 THEN 5 ELSE floor5

\* The current snapshot's table of features and the points each adds
complexity_features ==
    <<[feature |-> <<"JOIN">>, score |-> 2], [feature |-> <<"GROUP", "BY">>, score |-> 1],
      [feature |-> <<"HAVING">>, score |-> 1], [feature |-> <<"WINDOW">>, score |-> 2],
      [feature |-> <<"WITH">>, score |-> 2], [feature |-> <<"UNION">>, score |-> 1],
      [feature |-> <<"SUBQUERY">>, score |-> 2], [feature |-> <<"CASE">>, score |-> 1]>>

RECURSIVE FeaturePoints(_, _)
FeaturePoints(sql_upper, k) ==
    IF k > Len(complexity_features) THEN 0
    ELSE (IF Contains(sql_upper, complexity_features[k].feature)
          THEN complexity_features[k].score ELSE 0) + FeaturePoints(sql_upper, k + 1)

AdditiveScore(s) ==
    LET sql_upper == Upper(s)
        joins     == Count(sql_upper, "JOIN")
        points    == 1 + FeaturePoints(sql_upper, 1)
                       + (IF joins > 2 THEN joins - 2 ELSE 0)
                       + (IF Count(sql_upper, "SELECT") > 1 THEN 1 ELSE 0)
    IN  IF s = <<>> THEN 1 ELSE IF points <= 5 THEN points ELSE 5

\* C18 as stated: the score of every statement is the reference value.
C18_EqualsReference ==
    score_calls >= 1 => complexity_score = ReferenceScore(sql_query)

\* C18, amended: the legacy scorer returns the reference value; the current
\* scorer returns 1 plus the points of the features present, plus one point per
\* JOIN beyond the second, plus one point for more than one SELECT, capped at 5.
C18_ReferenceOrAdditive ==
    score_calls >= 1 =>
        complexity_score = IF snapshot = "legacy" THEN ReferenceScore(sql_query)
                           ELSE AdditiveScore(sql_query)

\* the legacy scorer has floored a statement with two SELECTs and no higher
\* keyword at 4
C18_Witness ==
    /\ snapshot = "legacy"
    /\ score_calls >= 1
    /\ Count(Upper(sql_query), "SELECT") > 1
    /\ PatternLevel(Upper(sql_query), 1, 1) = 1
    /\ complexity_score = 4

\* The window-function and CTE markers of each snapshot's scorer
Markers(s) ==
    IF s = "legacy" THEN {<<"WINDOW", "FUNCTION">>, <<"CTE">>} ELSE {<<"WINDOW">>, <<"WITH">>}

\* statements whose only indicator keyword is SELECT, any number of times
SelectOnly == SeqsUpTo({"SELECT", "select", "x"}, MaxLen)

Precedence == <<"advanced_analytics", "window_functions", "advanced_logic", "joins", "aggregation">>

\* the buckets (by their place in Precedence) with a keyword in the statement
Matching(s) == {k \in 1..Len(Precedence) : ContainsAny(Upper(s), sql_concepts(Precedence[k]))}

\* C20: a classified statement is in the earliest bucket of the order
\* advanced_analytics, window_functions, advanced_logic, joins, aggregation that
\* has a keyword in it, however many later buckets match too, and in
\* basic_select when none matches.
C20_EarliestBucket ==
    classified # "" =>
        classified = IF Matching(sql_query) = {} THEN "basic_select"
                     ELSE Precedence[CHOOSE k \in Matching(sql_query) :
                                        \A other \in Matching(sql_query) : k <= other]

\* a statement with keywords of three buckets was put in the earliest of them
C20_Witness ==
    /\ classified = "window_functions"
    /\ Matching(sql_query) = {2, 4, 5}

\* the explanation types the spec allows
ExplanationTypes == {"none", "basic", "intermediate", "advanced", "simplified", "conceptual",
                     "detailed", "error_handling"}

\* C21: a reply whose explanation_type is outside the allowed values is discarded
\* for the rule's decision, so no assessment carries a type outside them.
C21_TypeInEnum ==
    /\ \A a \in {assessment, returned.assessment} :
          a # NoAssessment => a.explanation_type \in ExplanationTypes
    /\ (/\ call.op = "execute_query"
        /\ react_result.success
        /\ ~call.raised
        /\ llm_reply.explanation_type \notin ExplanationTypes)
       => call.source = "rule"

\* a profile update of an existing profile is being done in this step
UpdateStep ==
    /\ call'.op \in {"_update_user_profile", "assess_user_cognitive_state"}
    /\ now' = now + 1
    /\ call'.user_id \in DOMAIN user_profiles

\* C22 as stated: an update leaves the profile's expertise_level and capacity as
\* they were, for every assessment.
C22_ExpertiseAndCapacityKept ==
    [][UpdateStep =>
         LET before == user_profiles[call'.user_id]
             after  == user_profiles'[call'.user_id]
         IN  /\ after.sql_expertise_level = before.sql_expertise_level
             /\ after.cognitive_load_capacity = before.cognitive_load_capacity]_vars

\* C22, amended: an update never changes the capacity; the current snapshot
\* never changes the expertise_level either, and the legacy snapshot raises it by
\* one, up to 5, exactly when intrinsic load and cognitive fit are both >= 4.
C22_CapacityKeptExpertiseByRule ==
    [][UpdateStep =>
         LET before == user_profiles[call'.user_id]
             after  == user_profiles'[call'.user_id]
             a      == assessment'
         IN  /\ after.cognitive_load_capacity = before.cognitive_load_capacity
             /\ snapshot = "current" => after.sql_expertise_level = before.sql_expertise_level
             /\ snapshot = "legacy" =>
                  after.sql_expertise_level =
                     IF a.intrinsic_load >= 4 /\ a.cognitive_fit_score >= 4
                     THEN (IF before.sql_expertise_level >= 5 THEN 5
                           ELSE before.sql_expertise_level + 1)
                     ELSE before.sql_expertise_level]_vars

\* a promoting update of the stored profile has been done and expertise and
\* capacity are the stored ones
C22_Witness ==
    /\ snapshot = "current"
    /\ call.op = "_update_user_profile"
    /\ call.user_id = "u1"
    /\ assessment.intrinsic_load >= 4
    /\ ~assessment.explanation_needed
    /\ Len(user_profiles["u1"].prior_query_history) = 1
    /\ user_profiles["u1"].sql_expertise_level = 5
    /\ user_profiles["u1"].cognitive_load_capacity = 3

\* C23: a write of the file during one user's update never puts back an older
\* record of another user: no user's record in the file loses a history entry
\* it already held.
C23_NoOlderRecord ==
    [][\A t \in Threads :
          (threads[t].pc = "dump" /\ threads'[t].pc = "done") =>
             \A u \in DOMAIN profile_file \ {threads[t].user_id} :
                Len(profile_file'[u].prior_query_history) >=
                   Len(profile_file[u].prior_query_history)]_vars

\* C24: an update whose write fails (the file is left as it was) does not raise,
\* and the profile in memory has the new history entry as its last one and the
\* promotion the assessment earns.
C24_WriteFailureKeepsMemory ==
    [][(UpdateStep /\ profile_file' = profile_file) =>
         LET before == user_profiles[call'.user_id]
             after  == user_profiles'[call'.user_id]
             a      == assessment'
             h      == after.prior_query_history
         IN  /\ ~call'.raised
             /\ Len(h) = (IF Len(before.prior_query_history) < 10
                          THEN Len(before.prior_query_history) + 1 ELSE 10)
             /\ h[Len(h)].timestamp = now
             /\ h[Len(h)].explanation_provided = a.explanation_needed
             /\ snapshot = "current" =>
                  after.sql_concept_levels[a.task_sql_concept] =
                     IF a.intrinsic_load >= 4 /\ ~a.explanation_needed
                     THEN (IF before.sql_concept_levels[a.task_sql_concept] >= 5 THEN 5
                           ELSE before.sql_concept_levels[a.task_sql_concept] + 1)
                     ELSE before.sql_concept_levels[a.task_sql_concept]]_vars

\* the write of a promoting update failed: memory is one entry and one level
\* ahead of the file
C24_Witness ==
    /\ snapshot = "current"
    /\ call.op = "_update_user_profile"
    /\ call.user_id \in DOMAIN profile_file
    /\ assessment.intrinsic_load >= 4
    /\ ~assessment.explanation_needed
    /\ profile_file[call.user_id].prior_query_history = <<>>
    /\ Len(user_profiles[call.user_id].prior_query_history) = 1
    /\ user_profiles[call.user_id].sql_concept_levels[assessment.task_sql_concept] =
          profile_file[call.user_id].sql_concept_levels[assessment.task_sql_concept] + 1

\* C25: the user ids with a profile only grow; an interaction of the current
\* snapshot leaves every existing profile exactly as it was, and the legacy
\* assessment of an existing user changes nothing of the profile but what its
\* update writes (the history gains an entry, the profile is never reset).
C25_ProfilesKept ==
    [][/\ DOMAIN user_profiles \subseteq DOMAIN user_profiles'
       /\ \A u \in DOMAIN user_profiles :
            LET before == user_profiles[u]
                after  == user_profiles'[u]
            IN  /\ call'.op = "execute_query" => after = before
                /\ call'.op = "assess_user_cognitive_state" =>
                     /\ after.user_id = before.user_id
                     /\ after.domain_knowledge = before.domain_knowledge
                     /\ after.cognitive_load_capacity = before.cognitive_load_capacity
                     /\ after.sql_expertise_level >= before.sql_expertise_level
                     /\ Len(before.prior_query_history) < 10 =>
                          SubSeq(after.prior_query_history, 1,
                                 Len(after.prior_query_history) - 1)
                             = before.prior_query_history]_vars

\* an interaction of a user whose profile came from the file has returned and
\* the profile is still the stored one
C25_Witness ==
    /\ snapshot = "current"
    /\ call.op = "execute_query"
    /\ call.user_id = "u1"
    /\ react_result.success
    /\ call.decision_requests = 1
    /\ "u1" \in DOMAIN user_profiles
    /\ user_profiles["u1"] \in StoredProfiles("current")

\* statements of several lines: a CTE before the main SELECT, and a subquery
WithStatement == <<"WITH t AS (", "SELECT 1)", "SELECT * FROM t;">>
SubqueryStatement == <<"SELECT a, (", "SELECT 1)", "FROM t;">>

\* C26: for a completion without markers that is such a statement, alone or
\* followed by a line of prose, the returned statement starts with the whole
\* statement: no leading and no interior line of it is dropped.
C26_StatementIntact ==
    \A stmt \in {WithStatement, SubqueryStatement} :
        (/\ react_run.done
         /\ completion.lines \in {stmt, stmt \o <<"This query returns one value.">>})
        => /\ Len(react_run.statement) >= Len(stmt)
           /\ SubSeq(react_run.statement, 1, Len(stmt)) = stmt

\* C27: every score the core stores or returns is in 1..5: a profile's
\* expertise_level, capacity and concept levels, an assessment's intrinsic load
\* and, in the legacy snapshot, its extraneous load and cognitive fit score.
C27_ScoresInRange ==
    /\ \A u \in DOMAIN user_profiles :
          /\ user_profiles[u].sql_expertise_level \in 1..5
          /\ user_profiles[u].cognitive_load_capacity \in 1..5
          /\ snapshot = "current" =>
               \A c \in DOMAIN user_profiles[u].sql_concept_levels :
                  user_profiles[u].sql_concept_levels[c] \in 1..5
    /\ assessment # NoAssessment =>
          /\ assessment.intrinsic_load \in 1..5
          /\ snapshot = "legacy" =>
               /\ assessment.extraneous_load \in 1..5
               /\ assessment.cognitive_fit_score \in 1..5

\* C28: execute_query always returns; when a step threw, it returns a failed
\* result with an empty statement, complexity 1 and an error message, and no
\* explanation; with debug info it also returns the fixed error assessment and
\* the user has a profile.
C28_NeverRaises ==
    call.op = "execute_query" =>
        /\ returned # NoReturn
        /\ call.raised =>
             /\ ~returned.result.success
             /\ returned.result.sql_query = <<>>
             /\ returned.result.complexity_score = 1
             /\ returned.result.error_message # NoError
             /\ returned.explanation = "none"
             /\ returned.debug =>
                  /\ returned.assessment.intrinsic_load = 5
                  /\ returned.assessment.task_sql_concept = "error"
                  /\ returned.assessment.explanation_needed
                  /\ returned.assessment.explanation_type = "error_handling"
                  /\ call.user_id \in DOMAIN user_profiles

\* the assessment threw on a reply that is a JSON array, with debug info asked
C28_Witness ==
    /\ call.op = "execute_query"
    /\ call.raised
    /\ llm_reply.kind = "array"
    /\ returned.debug
    /\ returned.assessment.explanation_type = "error_handling"
    /\ ~returned.result.success

\* C29: an update leaves every concept level but the assessed concept's as it
\* was and lowers none; no step of the store ever lowers a concept level.
C29_OnlyAssessedConceptRises ==
    [][snapshot = "current" =>
         \A u \in DOMAIN user_profiles :
            \A c \in DOMAIN user_profiles[u].sql_concept_levels :
               /\ user_profiles'[u].sql_concept_levels[c] >= user_profiles[u].sql_concept_levels[c]
               /\ (call'.op = "_update_user_profile" /\ call'.user_id = u
                   /\ c # assessment'.task_sql_concept)
                  => user_profiles'[u].sql_concept_levels[c] =
                        user_profiles[u].sql_concept_levels[c]]_vars

\* the stored profile's aggregation level was promoted from 4 to 5 and its
\* other levels are the stored ones
C29_Witness ==
    /\ snapshot = "current"
    /\ call.op = "_update_user_profile"
    /\ call.user_id = "u1"
    /\ assessment.task_sql_concept = "aggregation"
    /\ Len(user_profiles["u1"].prior_query_history) = 1
    /\ \E stored \in StoredProfiles("current") :
          user_profiles["u1"].sql_concept_levels =
             [stored.sql_concept_levels EXCEPT !["aggregation"] = 5]

\* C30: an assessment with explanation_needed=true never carries the
\* explanation type "none": the rule path gives basic, intermediate or advanced,
\* the error path gives error_handling.
C30_NeededHasType ==
    \A a \in {assessment, returned.assessment} :
        (a # NoAssessment /\ a.explanation_needed) =>
            /\ a.explanation_type # "none"
            /\ (call.op = "execute_query" /\ ~call.raised /\ call.source = "rule")
               => a.explanation_type \in {"basic", "intermediate", "advanced"}
            /\ (call.op = "execute_query" /\ ~react_result.success)
               => a.explanation_type = "error_handling"

\* C30 on the rule path and the error path alone (the delegated path left out)
C30_RuleAndErrorPathsHaveType ==
    \A a \in {assessment, returned.assessment} :
        (a # NoAssessment /\ a.explanation_needed
         /\ call.op = "execute_query" /\ call.source # "delegated") =>
            a.explanation_type # "none"

====
